---- MODULE Spec2Model ----
(***************************************************************************)
(* Model of ttf2woff2.py: the repertoire assembly (_build_subset_text,     *)
(* _read_common_text_from_file), the emptiness check and subsetting        *)
(* (_subset_font_by_text) and the conversion sequence (ttf_to_woff2).      *)
(* Characters are Unicode code points; a str is a sequence of code points. *)
(***************************************************************************)
EXTENDS Integers, Sequences, FiniteSets, TLC

----------------------------------------------------------------------------
(* Bounds of the explored inputs *)

\* longest inline text / text file explored
MaxLen == 2

\* code points the explored texts are written with:
\* 'A', '\n', U+3000 (full-width space), U+FEFF (byte-order mark)
Alphabet == {65, 10, 12288, 65279}

----------------------------------------------------------------------------
(* Characters *)

SPACE == 32
FULLWIDTH_SPACE == 12288
BOM == 65279
NOTDEF == 0

\* the code points for which str.isspace() is true, i.e. the separators of
\* str.split() without arguments
WHITESPACE ==
    (9..13) \cup (28..32) \cup {133, 160, 5760} \cup (8192..8202)
    \cup {8232, 8233, 8239, 8287, 12288}

IsSpace(c) == c \in WHITESPACE

Range(s) == {s[i] : i \in 1..Len(s)}

\* BASIC_ASCII_TEXT = "".join(chr(code) for code in range(0x20, 0x7F))
BASIC_ASCII_TEXT == [i \in 1..95 |-> 31 + i]

\* BASIC_CJK_PUNCT_TEXT, the 21 characters of the literal, in order
BASIC_CJK_PUNCT_TEXT ==
    << 65292, 12290, 65281, 65311, 12289, 65307, 65306, 8216, 8217, 8220,
       8221, 12298, 12299, 12304, 12305, 65288, 65289, 8212, 8230, 183,
       12288 >>

----------------------------------------------------------------------------
(* Pure functions *)

\* _build_subset_text with the primary text's last character lost
BuildDropsLast(primary_text, include_basic_ascii, include_basic_cjk_punct) ==
    SubSeq(primary_text, 1, Len(primary_text) - 1)
      \o (IF include_basic_ascii THEN BASIC_ASCII_TEXT ELSE << >>)
      \o (IF include_basic_cjk_punct THEN BASIC_CJK_PUNCT_TEXT ELSE << >>)

\* _build_subset_text that appends the ASCII table whatever the flag says
BuildAlwaysAscii(primary_text, include_basic_ascii, include_basic_cjk_punct) ==
    primary_text
      \o BASIC_ASCII_TEXT
      \o (IF include_basic_cjk_punct THEN BASIC_CJK_PUNCT_TEXT ELSE << >>)

_build_subset_text(primary_text, include_basic_ascii, include_basic_cjk_punct) ==
    primary_text
      \o (IF include_basic_ascii THEN BASIC_ASCII_TEXT ELSE << >>)
      \o (IF include_basic_cjk_punct THEN BASIC_CJK_PUNCT_TEXT ELSE << >>)

\* text.lstrip(BOM): drop every leading U+FEFF
RECURSIVE LStripBom(_)
LStripBom(text) ==
    IF text # << >> /\ Head(text) = BOM THEN LStripBom(Tail(text)) ELSE text

\* str.split(): the maximal runs of non-whitespace characters, in order
RECURSIVE SplitAcc(_, _, _)
SplitAcc(rest, word, words) ==
    IF rest = << >>
    THEN IF word = << >> THEN words ELSE Append(words, word)
    ELSE IF IsSpace(Head(rest))
         THEN SplitAcc(Tail(rest), << >>,
                       IF word = << >> THEN words ELSE Append(words, word))
         ELSE SplitAcc(Tail(rest), Append(word, Head(rest)), words)

Split(text) == SplitAcc(text, << >>, << >>)

\* "".join(words)
RECURSIVE Join(_)
Join(words) ==
    IF words = << >> THEN << >> ELSE Head(words) \o Join(Tail(words))

\* open(file_path, "r", encoding=encoding) and f.read() (lines 60-66): the
\* exception raised, or "none"
OpenAndRead(f, encoding) ==
    IF ~f.exists THEN "FileNotFoundError"
    ELSE IF f.encoding # encoding THEN "DecodeError"
    ELSE "none"

Returned(text) == [raised |-> "none", value |-> text]
Raised(e) == [raised |-> e, value |-> << >>]

\* _read_common_text_from_file without the split and join: whitespace is kept
ReadKeepsWhitespace(f, encoding) ==
    IF OpenAndRead(f, encoding) # "none" THEN Raised(OpenAndRead(f, encoding))
    ELSE Returned(LStripBom(f.text) \o << SPACE, FULLWIDTH_SPACE >>)

\* _read_common_text_from_file without the two spaces of line 78
ReadNoSpaces(f, encoding) ==
    IF OpenAndRead(f, encoding) # "none" THEN Raised(OpenAndRead(f, encoding))
    ELSE Returned(Join(Split(LStripBom(f.text))))

\* _read_common_text_from_file: read and decode, lstrip the BOM, split on
\* whitespace, join, append " " and U+3000
_read_common_text_from_file(f, encoding) ==
    IF OpenAndRead(f, encoding) # "none" THEN Raised(OpenAndRead(f, encoding))
    ELSE Returned(Join(Split(LStripBom(f.text))) \o << SPACE, FULLWIDTH_SPACE >>)

----------------------------------------------------------------------------
(* Inputs of one conversion *)

RECURSIVE SeqsUpTo(_)
SeqsUpTo(n) ==
    IF n = 0 THEN {<< >>}
    ELSE LET shorter == SeqsUpTo(n - 1)
         IN  shorter \cup {Append(s, c) : s \in shorter, c \in Alphabet}

Texts == SeqsUpTo(MaxLen)

\* an Optional[str] argument: None, or a str
None == [given |-> FALSE, value |-> << >>]
Some(t) == [given |-> TRUE, value |-> t]

Encodings == {"utf-8", "gbk"}

\* what is stored at common_chars_path: nothing, or bytes that are the
\* encoding of `text` in `encoding` and are invalid in the other encoding
NoFile == [exists |-> FALSE, encoding |-> "utf-8", text |-> << >>]
Files == {NoFile} \cup [exists : {TRUE}, encoding : Encodings, text : Texts]

\* the glyphs of the input font: .notdef and one glyph per mapped character
\* ('A', 'a', '0', space, U+3000 and the ideographic comma and full stop)
InputGlyphs == {NOTDEF, 65, 97, 48, 32, 12288, 65292, 12290}

NoFont == [open |-> FALSE, glyphs |-> {}, flavor |-> "none"]

----------------------------------------------------------------------------
(* State *)

VARIABLES
    pc,                      \* position in ttf_to_woff2, "done" or "failed"
    common_text,             \* argument: None or Some(str)
    common_chars_path,       \* argument: None or Some(path), as a BOOLEAN "given"
    file,                    \* what the file system holds at common_chars_path
    include_basic_ascii,     \* argument
    include_basic_cjk_punct, \* argument
    common_chars_encoding,   \* argument
    cff,                     \* the input font is CFF-based (signature or extension)
    outline_converter,       \* the optional outline converter is installed
    font,                    \* the TTFont object of line 128
    file_text,               \* local of line 138
    final_text,              \* local of lines 135 / 139
    output,                  \* the file at output_path: "absent", "truncated", "written"
    error,                   \* the exception that ended the call, or "none"
    file_read,               \* _read_common_text_from_file has opened the file
    subset_called            \* subsetter.subset(font) has run

args == << common_text, common_chars_path, file, include_basic_ascii,
           include_basic_cjk_punct, common_chars_encoding, cff,
           outline_converter >>

vars == << pc, common_text, common_chars_path, file, include_basic_ascii,
           include_basic_cjk_punct, common_chars_encoding, cff,
           outline_converter, font, file_text, final_text, output, error,
           file_read, subset_called >>

Init ==
    /\ pc = "start"
    /\ common_text \in {None} \cup {Some(t) : t \in Texts}
    /\ common_chars_path \in BOOLEAN
    /\ file \in Files
    /\ (~common_chars_path => file = NoFile)
    /\ include_basic_ascii \in BOOLEAN
    /\ include_basic_cjk_punct \in BOOLEAN
    /\ common_chars_encoding \in Encodings
    /\ cff \in BOOLEAN
    /\ outline_converter \in BOOLEAN
    /\ font = NoFont
    /\ file_text = << >>
    /\ final_text = << >>
    /\ output = "absent"
    /\ error = "none"
    /\ file_read = FALSE
    /\ subset_called = FALSE

----------------------------------------------------------------------------
(* ttf_to_woff2, statement by statement *)

Raise(e) ==
    /\ pc' = "failed"
    /\ error' = e

\* line 128: font = TTFont(input_path)
Load ==
    /\ pc = "start"
    /\ font' = [open |-> TRUE, glyphs |-> InputGlyphs, flavor |-> "none"]
    /\ pc' = "loaded"
    /\ UNCHANGED << args, file_text, final_text, output, error, file_read,
                    subset_called >>

\* line 128: TTFont(input_path) raises (unreadable or corrupt input)
LoadFails ==
    /\ pc = "start"
    /\ Raise("LoadError")
    /\ UNCHANGED << args, font, file_text, final_text, output, file_read,
                    subset_called >>

\* the if / elif of lines 134 and 137 with the file branch tested first
FileFirstBranch(text, path) ==
    IF path THEN "file"
    ELSE IF text.given THEN "inline"
    ELSE "none"

\* the if / elif of lines 134 and 137
TextSourceBranch(text, path) ==
    IF text.given THEN "inline"
    ELSE IF path THEN "file"
    ELSE "none"

\* line 135: final_text = _build_subset_text(common_text, ...)
BuildInline ==
    /\ pc = "loaded"
    /\ TextSourceBranch(common_text, common_chars_path) = "inline"
    /\ final_text' = _build_subset_text(common_text.value, include_basic_ascii,
                                        include_basic_cjk_punct)
    /\ pc' = "built"
    /\ UNCHANGED << args, font, file_text, output, error, file_read,
                    subset_called >>

\* line 138: file_text = _read_common_text_from_file(...)
ReadFile ==
    /\ pc = "loaded"
    /\ TextSourceBranch(common_text, common_chars_path) = "file"
    /\ LET r == _read_common_text_from_file(file, common_chars_encoding)
       IN  /\ r.raised = "none"
           /\ file_text' = r.value
    /\ file_read' = TRUE
    /\ pc' = "read"
    /\ UNCHANGED << args, font, final_text, output, error, subset_called >>

\* line 138: open() raises FileNotFoundError, or the decode raises
\* UnicodeDecodeError, re-raised as ValueError (lines 63-66)
ReadFileFails ==
    /\ pc = "loaded"
    /\ TextSourceBranch(common_text, common_chars_path) = "file"
    /\ LET r == _read_common_text_from_file(file, common_chars_encoding)
       IN  /\ r.raised # "none"
           /\ Raise(r.raised)
    /\ file_read' = TRUE
    /\ UNCHANGED << args, font, file_text, final_text, output, subset_called >>

\* line 139: final_text = _build_subset_text(file_text, ...)
BuildFromFile ==
    /\ pc = "read"
    /\ final_text' = _build_subset_text(file_text, include_basic_ascii,
                                        include_basic_cjk_punct)
    /\ pc' = "built"
    /\ UNCHANGED << args, font, file_text, output, error, file_read,
                    subset_called >>

\* what subsetter.subset(font) keeps: .notdef (options.notdef_glyph) and the
\* glyphs of the characters of the text
SubsetGlyphs(glyphs, text) ==
    {g \in glyphs : g = NOTDEF \/ g \in Range(text)}

\* lines 136 / 140, _subset_font_by_text lines 88-90: the text is empty
SubsetEmpty ==
    /\ pc = "built"
    /\ final_text = << >>
    /\ Raise("EmptyRepertoireError")
    /\ UNCHANGED << args, font, file_text, final_text, output, file_read,
                    subset_called >>

\* lines 136 / 140, _subset_font_by_text lines 92-105
Subset ==
    /\ pc = "built"
    /\ final_text # << >>
    /\ subset_called' = TRUE
    /\ font' = [font EXCEPT !.glyphs = SubsetGlyphs(font.glyphs, final_text)]
    /\ pc' = "subsetted"
    /\ UNCHANGED << args, file_text, final_text, output, error, file_read >>

\* lines 136 / 140: subsetter.subset(font) raises
SubsetFails ==
    /\ pc = "built"
    /\ final_text # << >>
    /\ subset_called' = TRUE
    /\ Raise("SubsetError")
    /\ UNCHANGED << args, font, file_text, final_text, output, file_read >>

\* a flavor other than the one line 142 assigns
WoffFlavor == "woff"

\* the flavor line 142 assigns
OutputFlavor == "woff2"

\* line 142: font.flavor = "woff2"
SetFlavor ==
    /\ \/ pc = "subsetted"
       \/ /\ pc = "loaded"
          /\ TextSourceBranch(common_text, common_chars_path) = "none"
    /\ font' = [font EXCEPT !.flavor = OutputFlavor]
    /\ pc' = "flavored"
    /\ UNCHANGED << args, file_text, final_text, output, error, file_read,
                    subset_called >>

\* line 143: font.save(output_path)
Save ==
    /\ pc = "flavored"
    /\ output' = "written"
    /\ pc' = "done"
    /\ UNCHANGED << args, font, file_text, final_text, error, file_read,
                    subset_called >>

\* line 143: font.save(output_path) raises, before the file is created
\* (permission denied) or while it is written (disk full); nothing removes
\* what was written
SaveFails ==
    /\ pc = "flavored"
    /\ output' \in {"absent", "truncated"}
    /\ Raise("SaveError")
    /\ UNCHANGED << args, font, file_text, final_text, file_read,
                    subset_called >>

Next ==
    \/ Load
    \/ LoadFails
    \/ BuildInline
    \/ ReadFile
    \/ ReadFileFails
    \/ BuildFromFile
    \/ SubsetEmpty
    \/ Subset
    \/ SubsetFails
    \/ SetFlavor
    \/ Save
    \/ SaveFails

Spec == Init /\ [][Next]_vars

----------------------------------------------------------------------------
(* Vocabulary of the properties *)

Branch == TextSourceBranch(common_text, common_chars_path)

FlagsOff == ~include_basic_ascii /\ ~include_basic_cjk_punct

\* the text the caller supplied, before any processing
SourceText == IF Branch = "inline" THEN common_text.value ELSE file.text

\* the argument _build_subset_text received
PrimaryText == IF Branch = "inline" THEN common_text.value ELSE file_text

\* _read_common_text_from_file has returned
Normalized == Branch = "file" /\ pc \in {"read", "built", "subsetted", "flavored", "done"}

\* final_text has been assigned
Built ==
    /\ Branch # "none"
    /\ \/ pc \in {"built", "subsetted", "flavored", "done"}
       \/ /\ pc = "failed"
          /\ error \in {"EmptyRepertoireError", "SubsetError", "SaveError"}

NonSpaceChars(text) == {c \in Range(text) : ~IsSpace(c)}

\* file_text without the two characters line 78 appends
Compact(text) == SubSeq(text, 1, Len(text) - 2)

----------------------------------------------------------------------------
(* C1 *)

----------------------------------------------------------------------------
(* C2 *)

\* C2: when common_text and common_chars_path are both given, the file is
\* never opened or decoded, and the final text, the error and the glyphs kept
\* are those the inline text alone determines, whatever the file holds.
C2_InlineTextExclusive ==
    (common_text.given /\ common_chars_path) =>
        /\ ~file_read
        /\ file_text = << >>
        /\ pc # "read"
        /\ error \notin {"DecodeError", "FileNotFoundError"}
        /\ Built => final_text = common_text.value
                       \o (IF include_basic_ascii THEN BASIC_ASCII_TEXT ELSE << >>)
                       \o (IF include_basic_cjk_punct THEN BASIC_CJK_PUNCT_TEXT ELSE << >>)
        /\ pc \in {"subsetted", "flavored", "done"} =>
               font.glyphs = {g \in InputGlyphs :
                                 \/ g = NOTDEF
                                 \/ g \in Range(common_text.value)
                                 \/ (include_basic_ascii /\ g \in 32..126)
                                 \/ (include_basic_cjk_punct
                                       /\ g \in Range(BASIC_CJK_PUNCT_TEXT))}

C2_Witness ==
    /\ common_text.given
    /\ common_chars_path
    /\ OpenAndRead(file, common_chars_encoding) # "none"
    /\ pc = "done"
    /\ output = "written"

----------------------------------------------------------------------------
(* C3 *)

\* C3: with neither common_text nor common_chars_path, a loaded conversion
\* never reads a file or calls the subsetter, keeps the glyph set it loaded,
\* has flavor woff2 when it saves, and raises nothing before the save.
C3_NoTextNoSubsetting ==
    (~common_text.given /\ ~common_chars_path) =>
        /\ ~subset_called
        /\ ~file_read
        /\ pc \notin {"read", "built", "subsetted"}
        /\ error \in {"none", "LoadError", "SaveError"}
        /\ font.open => font.glyphs = InputGlyphs
        /\ (pc \in {"flavored", "done"} \/ error = "SaveError")
               => font.flavor = "woff2"

C3_Witness ==
    /\ ~common_text.given
    /\ ~common_chars_path
    /\ pc = "done"
    /\ output = "written"
    /\ font.glyphs = InputGlyphs

----------------------------------------------------------------------------
(* C4 *)

\* C4 as stated: with a decodable file of nothing but whitespace as the text
\* source, the conversion ends with EmptyRepertoireError and neither the
\* subsetter nor the save is reached.
C4_WhitespaceFileIsEmptyError ==
    (Branch = "file" /\ OpenAndRead(file, common_chars_encoding) = "none"
       /\ NonSpaceChars(file.text) = {}) =>
        /\ ~subset_called
        /\ pc \notin {"subsetted", "flavored", "done"}
        /\ output = "absent"
        /\ error \in {"none", "LoadError", "EmptyRepertoireError"}

----------------------------------------------------------------------------
(* C5 *)

\* C5 as stated: a CFF-based font with the outline converter unavailable
\* fails with MissingCapabilityError before subsetting, flavor assignment
\* and save; no output file is produced.
C5_CffWithoutConverterFails ==
    (cff /\ ~outline_converter) =>
        /\ ~subset_called
        /\ font.flavor = "none"
        /\ output = "absent"
        /\ pc # "done"
        /\ error \in {"none", "LoadError", "MissingCapabilityError"}

----------------------------------------------------------------------------
(* C6 *)

\* C6 as stated: the result of _read_common_text_from_file has no whitespace
\* (other than the two spaces it appends), has no U+FEFF anywhere, and
\* contains U+0020 and U+3000.
C6_NoWhitespaceNoBomAnywhere ==
    Normalized =>
        /\ Len(file_text) >= 2
        /\ \A c \in Range(Compact(file_text)) : ~IsSpace(c)
        /\ BOM \notin Range(file_text)
        /\ {SPACE, FULLWIDTH_SPACE} \subseteq Range(file_text)

\* C6 amended: the result is a whitespace-free sequence followed by exactly
\* U+0020 and U+3000; it has no U+FEFF when the source has none after its
\* leading run of U+FEFF (only leading marks are stripped).
C6_NoWhitespaceLeadingBomStripped ==
    Normalized =>
        /\ Len(file_text) >= 2
        /\ \A c \in Range(Compact(file_text)) : ~IsSpace(c)
        /\ file_text[Len(file_text) - 1] = SPACE
        /\ file_text[Len(file_text)] = FULLWIDTH_SPACE
        /\ (\A i \in 2..Len(file.text) :
               file.text[i] = BOM => file.text[i - 1] = BOM)
              => BOM \notin Range(file_text)

C6_Witness ==
    /\ Normalized
    /\ file.text # << >>
    /\ Head(file.text) = BOM
    /\ \E c \in Range(file.text) : IsSpace(c)

----------------------------------------------------------------------------
(* C7 *)

----------------------------------------------------------------------------
(* C8 *)

\* C8 as stated: a conversion either completes with the output written in
\* full, or fails with no file, truncated or not, at the output path.
C8_NoPartialOutput ==
    /\ pc = "done" => output = "written"
    /\ pc = "failed" => output = "absent"
    /\ pc \notin {"done", "failed"} => output = "absent"

----------------------------------------------------------------------------
(* C9 *)

\* C9: for every text T and flags, the characters of build(T + T, flags) are
\* the characters of build(T, flags).
C9_DuplicationInsensitive ==
    Built =>
        Range(_build_subset_text(PrimaryText \o PrimaryText, include_basic_ascii,
                                 include_basic_cjk_punct))
          = Range(final_text)

C9_Witness ==
    /\ pc = "built"
    /\ Branch = "inline"
    /\ common_text.value = << 65, 10 >>
    /\ include_basic_ascii
    /\ ~include_basic_cjk_punct

----------------------------------------------------------------------------
(* C10 *)

\* C10 as stated: no conversion terminates, by a successful save or by a
\* failure after load, with its font object still open.
C10_FontClosedOnExit ==
    pc \in {"done", "failed"} => ~font.open

====
